---- MODULE Spec2Model ----
(***************************************************************************)
(* A model of pulumi/_types.py: the decorators input_type / output_type,   *)
(* the access protocol get / set over the per-instance _values dict, the   *)
(* synthesized __init__ / __eq__ / properties, input_type_to_dict, and the *)
(* type unwrapping functions unwrap_optional_type / _unwrap_type.          *)
(*                                                                         *)
(* Two specifications share the module:                                    *)
(*   Spec      classes, instances and the heap of dict objects;            *)
(*   SpecTypes type expressions built with typing's constructors and the   *)
(*             two unwrapping functions applied to them.                   *)
(***************************************************************************)
EXTENDS Naturals, Sequences, FiniteSets

VARIABLES
    program,    \* which class statements the program under analysis has run
    attrs,      \* attrs[c][a]: the entry for attribute a in cls.__dict__ of class c
    ninst,      \* number of instances allocated so far
    inst,       \* inst[i]: the instance objects (class, _values reference, own dict items)
    nrefs,      \* number of dict objects allocated so far
    heap,       \* heap[r]: the items of dict object r
    held,       \* the dict objects the calling code holds a reference to
    written,    \* history: written[i][k] is the value of the last successful set(i, k, _)
    last,       \* history: the last call and its outcome
    tp,         \* SpecTypes: the type object the expression under construction evaluated to
    expr,       \* SpecTypes: history: the type expression as the program wrote it
    cache,      \* SpecTypes: typing's cache of the subscriptions evaluated so far
    nexpr,      \* SpecTypes: number of annotations the program has written so far
    tlast       \* SpecTypes: the last unwrapping call and its outcome

accessVars == <<program, attrs, ninst, inst, nrefs, heap, held, written, last>>
typeVars == <<tp, expr, cache, nexpr, tlast>>
vars == <<program, attrs, ninst, inst, nrefs, heap, held, written, last, tp, expr, cache, nexpr, tlast>>

(***************************************************************************)
(* Bounds of the model.                                                    *)
(***************************************************************************)
MaxInst == 2
MaxRefs == 2
MaxTypeDepth == 2
MaxExpr == 2

(***************************************************************************)
(* Type expressions.  A type expression is a record [tag, name, args]:     *)
(* the literal None, type(None), a plain class, Output[T], or Union[...]   *)
(* with its __args__.                                                      *)
(***************************************************************************)
\* None as an annotation or a parameter of a subscription is written.
LiteralNone == [tag |-> "None", name |-> "", args |-> <<>>]
NoneType == [tag |-> "NoneType", name |-> "", args |-> <<>>]
PlainType(n) == [tag |-> "class", name |-> n, args |-> <<>>]

\* typing converts the parameters of a subscription before it builds the object:
\* the literal None becomes type(None).  The cache key keeps them as written.
_type_convert(p) == IF p = LiteralNone THEN NoneType ELSE p

\* The object a subscription Output[t] builds when it is not in the cache.
MakeOutput(t) == [tag |-> "Output", name |-> "", args |-> <<_type_convert(t)>>]

PlainNames == {"str", "int"}
\* What the program writes as an annotation or as a parameter of Union[...]:
\* None, type(None), str, int.
Atoms == {LiteralNone, NoneType} \cup {PlainType(n) : n \in PlainNames}

\* s == t as typing compares type objects: two unions are equal when they have
\* the same alternatives, in whatever order; other objects compare their
\* arguments one by one.  None and type(None) are different objects.
RECURSIVE TypeEq(_, _)
TypeEq(s, t) ==
    /\ s.tag = t.tag
    /\ s.name = t.name
    /\ IF s.tag = "Union"
       THEN /\ \A k \in 1..Len(s.args) : \E j \in 1..Len(t.args) :
                  TypeEq(s.args[k], t.args[j])
            /\ \A j \in 1..Len(t.args) : \E k \in 1..Len(s.args) :
                  TypeEq(s.args[k], t.args[j])
       ELSE /\ Len(s.args) = Len(t.args)
            /\ \A k \in 1..Len(s.args) : TypeEq(s.args[k], t.args[k])

RECURSIVE Flatten(_)
Flatten(params) ==
    IF params = <<>> THEN <<>>
    ELSE LET p == _type_convert(Head(params))
         IN (IF p.tag = "Union" THEN p.args ELSE <<p>>) \o Flatten(Tail(params))

RECURSIVE Dedup(_, _)
Dedup(seen, params) ==
    IF params = <<>> THEN seen
    ELSE LET p == Head(params)
         IN IF \E k \in 1..Len(seen) : TypeEq(seen[k], p)
            THEN Dedup(seen, Tail(params))
            ELSE Dedup(Append(seen, p), Tail(params))

\* The object a subscription Union[params] builds when it is not in the cache:
\* the parameters are converted, nested unions are flattened, duplicates dropped
\* (the first occurrence stays), and a union of one alternative is that alternative.
MakeUnion(params) ==
    LET a == Dedup(<<>>, Flatten(params))
    IN IF Len(a) = 1 THEN a[1] ELSE [tag |-> "Union", name |-> "", args |-> a]

\* typing keeps the result of every subscription Union[...], Optional[...] and
\* Output[...] in a cache keyed by the subscripted form and its parameters as
\* they were written; keys are compared with ==, so a subscription whose
\* parameters are equal to those of an earlier one gives the object built then,
\* with the order of alternatives it was built with.  Union[X, None] and
\* Union[X, type(None)] have different keys.
KeyEq(p, q) == Len(p) = Len(q) /\ \A k \in 1..Len(p) : TypeEq(p[k], q[k])
Hit(ch, form, params) == {e \in ch : e.form = form /\ KeyEq(e.params, params)}
Entry(form, params, result) == [form |-> form, params |-> params, result |-> result]
Evaluated(v, ch) == [val |-> v, cache |-> ch]

\* Union[params] evaluated with the cache ch: the object and the cache afterwards.
Union_getitem(ch, params) ==
    IF Hit(ch, "Union", params) # {}
    THEN Evaluated((CHOOSE e \in Hit(ch, "Union", params) : TRUE).result, ch)
    ELSE Evaluated(MakeUnion(params),
                   ch \cup {Entry("Union", params, MakeUnion(params))})

\* Optional[t] evaluated with the cache ch: on a miss it evaluates
\* Union[t, type(None)], t converted.
Optional_getitem(ch, t) ==
    IF Hit(ch, "Optional", <<t>>) # {}
    THEN Evaluated((CHOOSE e \in Hit(ch, "Optional", <<t>>) : TRUE).result, ch)
    ELSE LET u == Union_getitem(ch, <<_type_convert(t), NoneType>>)
         IN Evaluated(u.val, u.cache \cup {Entry("Optional", <<t>>, u.val)})

\* Output[t] evaluated with the cache ch.
Output_getitem(ch, t) ==
    IF Hit(ch, "Output", <<t>>) # {}
    THEN Evaluated((CHOOSE e \in Hit(ch, "Output", <<t>>) : TRUE).result, ch)
    ELSE Evaluated(MakeOutput(t), ch \cup {Entry("Output", <<t>>, MakeOutput(t))})

RECURSIVE Depth(_)
Depth(t) ==
    IF t.args = <<>> THEN 0
    ELSE LET d == [k \in 1..Len(t.args) |-> Depth(t.args[k])]
         IN 1 + (CHOOSE m \in {d[k] : k \in 1..Len(t.args)} :
                    \A k \in 1..Len(t.args) : d[k] <= m)

get_origin(t) == IF t.tag \in {"Output", "Union"} THEN t.tag ELSE "None"
get_args(t) == t.args

_is_union_type(t) == t.tag = "Union"

RECURSIVE _is_optional_type(_)
_is_optional_type(t) ==
    IF t = NoneType THEN TRUE
    ELSE IF _is_union_type(t)
         THEN \E k \in 1..Len(get_args(t)) : _is_optional_type(get_args(t)[k])
         ELSE FALSE

\* A type expression as it is written in the program: the subscriptions, not
\* the objects they evaluate to.
WrittenOptional(e) == [tag |-> "Optional", name |-> "", args |-> <<e>>]
WrittenOutput(e) == [tag |-> "Output", name |-> "", args |-> <<e>>]
WrittenUnion(a, b) == [tag |-> "Union", name |-> "", args |-> <<a, b>>]

\* The outcome of a call: the exception raised ("" when it returns) and the value.
TReturn(v) == [exc |-> "", val |-> v]
TRaise(e) == [exc |-> e, val |-> NoneType]

unwrap_optional_type(val) ==
    IF _is_optional_type(val) /\ Len(get_args(val)) = 2
    THEN IF get_args(val)[2] = NoneType
         THEN TReturn(get_args(val)[1])
         ELSE TRaise("AssertionError")
    ELSE TReturn(val)

_unwrap_type(val) ==
    IF get_origin(val) = "Output"
    THEN IF Len(get_args(val)) = 1
         THEN unwrap_optional_type(get_args(val)[1])
         ELSE TRaise("AssertionError")
    ELSE unwrap_optional_type(val)

NoCall == [op |-> "none", arg |-> NoneType, expr |-> NoneType, exc |-> "", val |-> NoneType]

(***************************************************************************)
(* Classes.  The class statements of the programs under analysis: one      *)
(* program defines a base class and a subclass of it with a                *)
(* _translate_property hook, the other a subclass of dict.  None of the    *)
(* classes defines __init__ or __eq__.                                     *)
(***************************************************************************)
Classes == {"Base", "Sub", "Dct"}
Programs == {"hierarchy", "mapping"}
ClassesOf(p) == IF p = "hierarchy" THEN {"Base", "Sub"} ELSE {"Dct"}
Parent(c) == IF c = "Sub" THEN "Base" ELSE "object"
IsDictSubclass(c) == c = "Dct"

_PULUMI_INPUT_TYPE == "_pulumi_input_type"
_PULUMI_OUTPUT_TYPE == "_pulumi_output_type"
_TRANSLATE_PROPERTY == "_translate_property"

FieldNames == {"a", "b"}
AttrNames == {_PULUMI_INPUT_TYPE, _PULUMI_OUTPUT_TYPE, _TRANSLATE_PROPERTY,
              "__init__", "__eq__"} \cup FieldNames

\* cls.__dict__['__annotations__'], in declaration order:
\*   class Base:        b: str = property("a")
\*   class Sub(Base):   a: str = property("b")
\*   class Dct(dict):   b: str
Annotations(c) ==
    CASE c = "Base" -> <<"b">>
      [] c = "Sub"  -> <<"a">>
      [] c = "Dct"  -> <<"b">>
      [] OTHER      -> <<>>

\* The entries of a class __dict__.
Absent == [kind |-> "absent", pulumi_name |-> "", setter |-> FALSE]
TrueAttr == [kind |-> "True", pulumi_name |-> "", setter |-> FALSE]
FunctionAttr == [kind |-> "function", pulumi_name |-> "", setter |-> FALSE]
\* property(name): the descriptor a field declaration leaves as its default.
_Property(name) == [kind |-> "_Property", pulumi_name |-> name, setter |-> FALSE]
\* builtins.property(fget, fset) built by _create_py_property.
_create_py_property(pulumi_name, setter) ==
    [kind |-> "property", pulumi_name |-> pulumi_name, setter |-> setter]

\* The class __dict__ right after the class statement.
ClassBody(c) ==
    [a \in AttrNames |->
        CASE c = "Base" /\ a = "b" -> _Property("a")
          [] c = "Sub" /\ a = "a" -> _Property("b")
          [] c = "Sub" /\ a = _TRANSLATE_PROPERTY -> FunctionAttr
          [] OTHER -> Absent]

\* Sub._translate_property(prop): a table lookup that falls back to prop.
Translate(prop) == IF prop = "a" THEN "b" ELSE prop

\* getattr(cls, a, <absent>): the class __dict__ first, then the base classes.
RECURSIVE GetAttr(_, _, _)
GetAttr(at, c, a) ==
    IF c = "object" THEN Absent
    ELSE IF at[c][a].kind # "absent" THEN at[c][a]
    ELSE GetAttr(at, Parent(c), a)

HasAttr(at, c, a) == GetAttr(at, c, a).kind # "absent"

is_input_type(at, c) == HasAttr(at, c, _PULUMI_INPUT_TYPE)
is_output_type(at, c) == HasAttr(at, c, _PULUMI_OUTPUT_TYPE)

\* The field names a class declares itself.
OwnFields(c) == {Annotations(c)[k] : k \in 1..Len(Annotations(c))}

\* name -> the wire name of the field's descriptor.
_properties_from_annotations(at, c) ==
    [n \in OwnFields(c) |->
        IF GetAttr(at, c, n).kind = "_Property" THEN GetAttr(at, c, n).pulumi_name ELSE n]

\* The class __dict__ after _process_class: descriptor defaults deleted, signifier set.
_process_class(at, c, signifier_attr) ==
    [a \in AttrNames |->
        IF a = signifier_attr THEN TrueAttr
        ELSE IF a \in OwnFields(c) /\ GetAttr(at, c, a).kind = "_Property" THEN Absent
        ELSE at[c][a]]

\* The class __dict__ after _add_eq.
_add_eq(c, d) ==
    IF ~IsDictSubclass(c) /\ d["__eq__"].kind = "absent"
    THEN [d EXCEPT !["__eq__"] = FunctionAttr]
    ELSE d

\* The class __dict__ after a successful input_type(cls).
InputTypeDict(at, c) ==
    LET props == _properties_from_annotations(at, c)
        d == _process_class(at, c, _PULUMI_INPUT_TYPE)
        e == [a \in AttrNames |->
                IF a \in OwnFields(c) THEN _create_py_property(props[a], TRUE) ELSE d[a]]
    IN _add_eq(c, e)

\* The class __dict__ after a successful output_type(cls).
OutputTypeDict(at, c) ==
    LET props == _properties_from_annotations(at, c)
        d == _process_class(at, c, _PULUMI_OUTPUT_TYPE)
        i == IF ~IsDictSubclass(c) /\ d["__init__"].kind = "absent"
             THEN [d EXCEPT !["__init__"] = FunctionAttr]
             ELSE d
        e == [a \in AttrNames |->
                IF a \in OwnFields(c) THEN _create_py_property(props[a], FALSE) ELSE i[a]]
    IN _add_eq(c, e)

(***************************************************************************)
(* Values, dicts and instances.                                            *)
(***************************************************************************)
Keys == {"a", "b"}
None == "None"
Values == {"x", "y"}
Missing == "<missing>"
EmptyDict == [k \in Keys |-> Missing]

\* dict.get(key)
DictGet(d, k) == IF k \in DOMAIN d /\ d[k] # Missing THEN d[k] ELSE None

Refs == 1..MaxRefs
Insts == 1..MaxInst
NoRef == 0

NoInst == [cls |-> "object", values |-> NoRef, items |-> EmptyDict, arg |-> NoRef]

\* The name argument of get and set: a str, or an object of another type.
StrName(s) == [isStr |-> TRUE, truthy |-> s # "", s |-> s]
IntName(n) == [isStr |-> FALSE, truthy |-> n # 0, s |-> ""]
NameArgs == {StrName("a"), StrName("b"), StrName(""), IntName(0), IntName(1)}
ValidNames == {StrName(k) : k \in Keys}

Return(v) == [exc |-> "", val |-> v]
Raise(e) == [exc |-> e, val |-> None]

\* getattr(self, _VALUES, None): None is NoRef.
Values_(ins, i) == ins[i].values

\* get(self, name) in the state (at, ins, hp).
get(at, ins, hp, i, name) ==
    LET cls == ins[i].cls
        values == Values_(ins, i)
        key == IF HasAttr(at, cls, _TRANSLATE_PROPERTY) THEN Translate(name.s) ELSE name.s
    IN IF ~name.truthy THEN Raise("TypeError")
       ELSE IF ~name.isStr THEN Raise("TypeError")
       ELSE IF HasAttr(at, cls, _PULUMI_INPUT_TYPE)
            THEN IF values # NoRef THEN Return(DictGet(hp[values], name.s)) ELSE Return(None)
       ELSE IF HasAttr(at, cls, _PULUMI_OUTPUT_TYPE)
            THEN IF IsDictSubclass(cls) THEN Return(DictGet(ins[i].items, key))
                 ELSE IF values # NoRef THEN Return(DictGet(hp[values], key)) ELSE Return(None)
       ELSE Raise("AssertionError")

\* A set that checks the kind of the class before it checks the name.  C4 tells
\* the two orders apart.
SetExc_kind_first(at, ins, i, name) ==
    IF ~HasAttr(at, ins[i].cls, _PULUMI_INPUT_TYPE) THEN "AssertionError"
    ELSE IF ~name.truthy THEN "TypeError"
    ELSE IF ~name.isStr THEN "TypeError"
    ELSE ""

\* The exception set(self, name, value) raises in the state (at, ins), "" if none.
SetExc(at, ins, i, name) ==
    IF ~name.truthy THEN "TypeError"
    ELSE IF ~name.isStr THEN "TypeError"
    ELSE IF ~HasAttr(at, ins[i].cls, _PULUMI_INPUT_TYPE) THEN "AssertionError"
    ELSE ""

\* An equality that compares the _values alone, not the classes.  C7 tells it
\* from the eq of the code.
eq_values_only(ins, hp, self, other) ==
    \/ Values_(ins, other) = NoRef /\ Values_(ins, self) = NoRef
    \/ /\ Values_(ins, other) # NoRef
       /\ Values_(ins, self) # NoRef
       /\ hp[Values_(ins, other)] = hp[Values_(ins, self)]

\* eq(self, other), the method _add_eq attaches.
eq(ins, hp, self, other) ==
    /\ ins[other].cls = ins[self].cls
    /\ \/ Values_(ins, other) = NoRef /\ Values_(ins, self) = NoRef
       \/ /\ Values_(ins, other) # NoRef
          /\ Values_(ins, self) # NoRef
          /\ hp[Values_(ins, other)] = hp[Values_(ins, self)]

(***************************************************************************)
(* The calls.  Each action is one call made by the program.  A call that   *)
(* can change the state records itself and the exception it raised in      *)
(* last; get, a property read and == change nothing, and their outcome is  *)
(* the value of the operators get and eq in the state they are called in.  *)
(***************************************************************************)
Call(op, c, exc) == [op |-> op, cls |-> c, exc |-> exc]
NoLast == Call("none", "object", "")

Init ==
    /\ program \in Programs
    /\ attrs = [c \in Classes |-> ClassBody(c)]
    /\ ninst = 0
    /\ inst = [i \in Insts |-> NoInst]
    /\ nrefs = 0
    /\ heap = [r \in Refs |-> EmptyDict]
    /\ held = {}
    /\ written = [i \in Insts |-> EmptyDict]
    /\ last = NoLast
    /\ tp = NoneType
    /\ expr = NoneType
    /\ cache = {}
    /\ nexpr = 1
    /\ tlast = NoCall

\* The check both decorators start with.
AlreadyDecorated(at, c) == is_input_type(at, c) \/ is_output_type(at, c)

\* @input_type applied to class c.
input_type(c) ==
    /\ IF AlreadyDecorated(attrs, c)
       THEN /\ attrs' = attrs
            /\ last' = Call("input_type", c, "AssertionError")
       ELSE /\ attrs' = [attrs EXCEPT ![c] = InputTypeDict(attrs, c)]
            /\ last' = Call("input_type", c, "")
    /\ UNCHANGED <<program, ninst, inst, nrefs, heap, held, written, typeVars>>

\* @output_type applied to class c.
output_type(c) ==
    /\ IF AlreadyDecorated(attrs, c)
       THEN /\ attrs' = attrs
            /\ last' = Call("output_type", c, "AssertionError")
       ELSE /\ attrs' = [attrs EXCEPT ![c] = OutputTypeDict(attrs, c)]
            /\ last' = Call("output_type", c, "")
    /\ UNCHANGED <<program, ninst, inst, nrefs, heap, held, written, typeVars>>

\* The dict object the synthesized __init__ makes the instance's _values when it
\* is given dict object r: r itself.
InitValues(r) == r

\* cls(value) for a class whose __init__ is the synthesized one: value is the dict
\* object r, or (r = NoRef) an object that is not a dict.
init(c, r) ==
    /\ ninst < MaxInst
    /\ GetAttr(attrs, c, "__init__").kind = "function"
    /\ ninst' = ninst + 1
    /\ IF r = NoRef
       THEN /\ inst' = [inst EXCEPT ![ninst + 1] = [NoInst EXCEPT !.cls = c]]
            /\ last' = Call("init", c, "TypeError")
       ELSE /\ inst' = [inst EXCEPT ![ninst + 1] =
                            [cls |-> c, values |-> InitValues(r), items |-> EmptyDict,
                             arg |-> r]]
            /\ last' = Call("init", c, "")
    /\ UNCHANGED <<program, attrs, nrefs, heap, held, written, typeVars>>

\* The items the program gives an instance of the dict subclass: Dct(b="x").
DctItems == [k \in Keys |-> IF k = "b" THEN "x" ELSE Missing]

\* cls() for a class without the synthesized __init__: object.__init__, or
\* dict.__init__ for the dict subclass.
New(c) ==
    /\ ninst < MaxInst
    /\ GetAttr(attrs, c, "__init__").kind # "function"
    /\ ninst' = ninst + 1
    /\ inst' = [inst EXCEPT ![ninst + 1] =
                    [NoInst EXCEPT !.cls = c,
                                   !.items = IF IsDictSubclass(c) THEN DctItems
                                             ELSE EmptyDict]]
    /\ last' = Call("new", c, "")
    /\ UNCHANGED <<program, attrs, nrefs, heap, held, written, typeVars>>

\* get(self, name): nothing changes.
Get(i, name) ==
    /\ i \in 1..ninst
    /\ get(attrs, inst, heap, i, name).exc \in {"", "TypeError", "AssertionError"}
    /\ UNCHANGED vars

\* values[name] = value
SetItem(d, k, v) == [d EXCEPT ![k] = v]

\* The body of set(self, name, value), called as op.  wire is the wire name the
\* caller means to write (history only).
SetBody(op, i, name, v, wire) ==
    LET exc == SetExc(attrs, inst, i, name)
        values == Values_(inst, i)
    IN IF exc # ""
       THEN /\ last' = Call(op, inst[i].cls, exc)
            /\ UNCHANGED <<inst, nrefs, heap, written>>
       ELSE /\ values = NoRef => nrefs < MaxRefs
            /\ IF values = NoRef
               THEN /\ nrefs' = nrefs + 1
                    /\ inst' = [inst EXCEPT ![i].values = nrefs + 1]
                    /\ heap' = [heap EXCEPT ![nrefs + 1] = SetItem(EmptyDict, name.s, v)]
               ELSE /\ heap' = [heap EXCEPT ![values] = SetItem(heap[values], name.s, v)]
                    /\ UNCHANGED <<inst, nrefs>>
            /\ written' = [written EXCEPT ![i][wire] = v]
            /\ last' = Call(op, inst[i].cls, "")

\* set(self, name, value)
Set(i, name, v) ==
    /\ i \in 1..ninst
    /\ SetBody("set", i, name, v, name.s)
    /\ UNCHANGED <<program, attrs, ninst, held, typeVars>>

\* The wire name the class statements declare for field f of class c: that of the
\* descriptor written as the field's default, else the field's own name.
RECURSIVE DeclaredWire(_, _)
DeclaredWire(c, f) ==
    IF c = "object" THEN f
    ELSE IF f \in OwnFields(c)
         THEN IF ClassBody(c)[f].kind = "_Property" THEN ClassBody(c)[f].pulumi_name ELSE f
         ELSE DeclaredWire(Parent(c), f)

\* The property of field f as instance i sees it.
Prop(at, ins, i, f) == GetAttr(at, ins[i].cls, f)

\* self.f for a property made by _create_py_property: getter_fn calls get with the
\* wire name; nothing changes.
getter_fn(at, ins, hp, i, f) == get(at, ins, hp, i, StrName(Prop(at, ins, i, f).pulumi_name))

ReadField(i, f) ==
    /\ i \in 1..ninst
    /\ Prop(attrs, inst, i, f).kind = "property"
    /\ getter_fn(attrs, inst, heap, i, f).exc = ""
    /\ UNCHANGED vars

\* self.f = v for a property made by _create_py_property: setter_fn calls set with
\* the wire name; a property made without a setter raises AttributeError.
setter_fn(i, f, v) ==
    /\ i \in 1..ninst
    /\ Prop(attrs, inst, i, f).kind = "property"
    /\ IF Prop(attrs, inst, i, f).setter
       THEN SetBody("setter_fn", i, StrName(Prop(attrs, inst, i, f).pulumi_name), v,
                    DeclaredWire(inst[i].cls, f))
       ELSE /\ last' = Call("setter_fn", inst[i].cls, "AttributeError")
            /\ UNCHANGED <<inst, nrefs, heap, written>>
    /\ UNCHANGED <<program, attrs, ninst, held, typeVars>>

\* The items of the dict input_type_to_dict(value) returns: dict(_values), or {}.
ToDictItems(ins, hp, i) ==
    IF Values_(ins, i) = NoRef THEN EmptyDict ELSE hp[Values_(ins, i)]

\* input_type_to_dict(value): the result is a new dict object, held by the caller.
input_type_to_dict(i) ==
    /\ i \in 1..ninst
    /\ IF ~is_input_type(attrs, inst[i].cls)
       THEN /\ last' = Call("input_type_to_dict", inst[i].cls, "AssertionError")
            /\ UNCHANGED <<nrefs, heap, held>>
       ELSE /\ nrefs < MaxRefs
            /\ nrefs' = nrefs + 1
            /\ heap' = [heap EXCEPT ![nrefs + 1] = ToDictItems(inst, heap, i)]
            /\ held' = held \cup {nrefs + 1}
            /\ last' = Call("input_type_to_dict", inst[i].cls, "")
    /\ UNCHANGED <<program, attrs, ninst, inst, written, typeVars>>

\* The class of instance i has the __eq__ that _add_eq attaches.
HasEq(at, ins, i) == GetAttr(at, ins[i].cls, "__eq__").kind = "function"

\* self == other through the attached __eq__: nothing changes.
Eq(i, j) ==
    /\ i \in 1..ninst /\ j \in 1..ninst
    /\ HasEq(attrs, inst, i)
    /\ eq(inst, heap, i, j) \in BOOLEAN
    /\ UNCHANGED vars

\* The calling code makes a dict of its own: d = {}.
CallerNewDict ==
    /\ nrefs < MaxRefs
    /\ nrefs' = nrefs + 1
    /\ heap' = [heap EXCEPT ![nrefs + 1] = EmptyDict]
    /\ held' = held \cup {nrefs + 1}
    /\ last' = Call("caller_new_dict", "object", "")
    /\ UNCHANGED <<program, attrs, ninst, inst, written, typeVars>>

\* The calling code changes a dict it holds: d[k] = "y".
CallerValue == "y"
CallerSetItem(r, k) ==
    /\ r \in held
    /\ heap' = [heap EXCEPT ![r][k] = CallerValue]
    /\ last' = Call("caller_setitem", "object", "")
    /\ UNCHANGED <<program, attrs, ninst, inst, nrefs, held, written, typeVars>>

Next ==
    \/ \E c \in ClassesOf(program) : input_type(c)
    \/ \E c \in ClassesOf(program) : output_type(c)
    \/ \E c \in ClassesOf(program), r \in held \cup {NoRef} : init(c, r)
    \/ \E c \in ClassesOf(program) : New(c)
    \/ \E i \in Insts, name \in NameArgs : Get(i, name)
    \/ \E i \in Insts, name \in NameArgs, v \in Values : Set(i, name, v)
    \/ \E i \in Insts, f \in FieldNames : ReadField(i, f)
    \/ \E i \in Insts, f \in FieldNames, v \in Values : setter_fn(i, f, v)
    \/ \E i \in Insts : input_type_to_dict(i)
    \/ \E i \in Insts, j \in Insts : Eq(i, j)
    \/ CallerNewDict
    \/ \E r \in Refs, k \in Keys : CallerSetItem(r, k)

Spec == Init /\ [][Next]_vars

(***************************************************************************)
(* SpecTypes: type expressions are built with typing's constructors and    *)
(* the unwrapping functions are applied to them.                           *)
(***************************************************************************)
TypeInit ==
    /\ tp \in Atoms
    /\ expr = tp
    /\ cache = {}
    /\ nexpr = 1
    /\ tlast = NoCall
    /\ program = "hierarchy"
    /\ attrs = [c \in Classes |-> ClassBody(c)]
    /\ ninst = 0
    /\ inst = [i \in Insts |-> NoInst]
    /\ nrefs = 0
    /\ heap = [r \in Refs |-> EmptyDict]
    /\ held = {}
    /\ written = [i \in Insts |-> EmptyDict]
    /\ last = NoLast

\* The program goes on to evaluate the subscription written e, whose outcome
\* is r.
Subscribe(r, e) ==
    /\ Depth(e) <= MaxTypeDepth
    /\ tp' = r.val
    /\ cache' = r.cache
    /\ expr' = e
    /\ tlast' = NoCall
    /\ UNCHANGED nexpr
    /\ UNCHANGED accessVars

\* Optional[tp]
WrapOptional == Subscribe(Optional_getitem(cache, tp), WrittenOptional(expr))

\* Output[tp]
WrapOutput == Subscribe(Output_getitem(cache, tp), WrittenOutput(expr))

\* Union[tp, a]
UnionRight(a) == Subscribe(Union_getitem(cache, <<tp, a>>), WrittenUnion(expr, a))

\* Union[a, tp]
UnionLeft(a) == Subscribe(Union_getitem(cache, <<a, tp>>), WrittenUnion(a, expr))

\* The program starts on another type expression (another annotation); the cache
\* stays as it is.
NewExpression(a) ==
    /\ nexpr < MaxExpr
    /\ nexpr' = nexpr + 1
    /\ tp' = a
    /\ expr' = a
    /\ tlast' = NoCall
    /\ UNCHANGED cache
    /\ UNCHANGED accessVars

CallUnwrapOptional ==
    /\ tlast' = [op |-> "unwrap_optional_type", arg |-> tp, expr |-> expr,
                 exc |-> unwrap_optional_type(tp).exc, val |-> unwrap_optional_type(tp).val]
    /\ UNCHANGED <<tp, expr, cache, nexpr>>
    /\ UNCHANGED accessVars

CallUnwrap ==
    /\ tlast' = [op |-> "_unwrap_type", arg |-> tp, expr |-> expr,
                 exc |-> _unwrap_type(tp).exc, val |-> _unwrap_type(tp).val]
    /\ UNCHANGED <<tp, expr, cache, nexpr>>
    /\ UNCHANGED accessVars

\* _unwrap_type(_unwrap_type(tp)): the function applied to its own result.
CallUnwrapTwice ==
    /\ _unwrap_type(tp).exc = ""
    /\ tlast' = [op |-> "_unwrap_type twice", arg |-> tp, expr |-> expr,
                 exc |-> _unwrap_type(_unwrap_type(tp).val).exc,
                 val |-> _unwrap_type(_unwrap_type(tp).val).val]
    /\ UNCHANGED <<tp, expr, cache, nexpr>>
    /\ UNCHANGED accessVars

TypeNext ==
    \/ WrapOptional
    \/ WrapOutput
    \/ \E a \in Atoms : UnionRight(a)
    \/ \E a \in Atoms : UnionLeft(a)
    \/ \E a \in Atoms : NewExpression(a)
    \/ CallUnwrapOptional
    \/ CallUnwrap
    \/ CallUnwrapTwice

SpecTypes == TypeInit /\ [][TypeNext]_vars

(***************************************************************************)
(* The properties.                                                         *)
(***************************************************************************)
Live == 1..ninst
Decorators == {"input_type", "output_type"}
ClsOf(i) == inst[i].cls
\* The class has the signifier in its own __dict__.
OwnTag(c) ==
    \/ attrs[c][_PULUMI_INPUT_TYPE].kind # "absent"
    \/ attrs[c][_PULUMI_OUTPUT_TYPE].kind # "absent"

\* The class carries a kind tag, its own or an inherited one.
CarriesTag(c) == is_input_type(attrs, c) \/ is_output_type(attrs, c)

\* C2: a decorator applied to a class that already carries a kind tag raises
\* AssertionError (the AlreadyDecorated condition) and leaves every class as it
\* was, whichever of the two decorators came first and whichever comes second;
\* and no class ever carries both the input tag and the output tag.
C2_NeverBothTags ==
    \A c \in Classes : ~(is_input_type(attrs, c) /\ is_output_type(attrs, c))
C2_SecondDecorationFails ==
    \A c \in Classes :
        (CarriesTag(c) /\ last'.op \in Decorators /\ last'.cls = c)
            => (last'.exc = "AssertionError" /\ attrs' = attrs)
C2_DecorateOnce == [] C2_NeverBothTags /\ [][C2_SecondDecorationFails]_vars

\* C1: on an instance of an input type, get with a valid wire name returns the
\* value of the last set for that name, and None (no exception) for a name that
\* was never set, also when the instance has no _values dict yet.
C1_LastWriteWins ==
    \A i \in Live : \A k \in Keys :
        is_input_type(attrs, ClsOf(i)) =>
            get(attrs, inst, heap, i, StrName(k)) =
                Return(IF written[i][k] = Missing THEN None ELSE written[i][k])

\* C3: a decorator raises AssertionError (AlreadyDecorated) only for a class that
\* was itself decorated before; a subclass that has not been decorated is accepted
\* even when its base class was decorated earlier.
C3_FailsOnlyIfItselfDecorated ==
    (last.op \in Decorators /\ last.exc = "AssertionError") => OwnTag(last.cls)

\* C4: get and set raise TypeError (InvalidArgument) for an empty or non-str name
\* whatever the class is; with a valid name get raises AssertionError (UsageError)
\* when the class carries neither tag and set raises it when the class is not an
\* input type; a set that raises leaves every instance and every dict as it was
\* and creates no dict (a get never changes anything).
C4_Errors ==
    \A i \in Live : \A name \in NameArgs :
        /\ name \notin ValidNames =>
              /\ get(attrs, inst, heap, i, name).exc = "TypeError"
              /\ SetExc(attrs, inst, i, name) = "TypeError"
        /\ (name \in ValidNames /\ ~CarriesTag(ClsOf(i))) =>
              get(attrs, inst, heap, i, name).exc = "AssertionError"
        /\ (name \in ValidNames /\ ~is_input_type(attrs, ClsOf(i))) =>
              SetExc(attrs, inst, i, name) = "AssertionError"
        /\ (name \in ValidNames /\ is_input_type(attrs, ClsOf(i))) =>
              SetExc(attrs, inst, i, name) = ""
C4_FailedSetChangesNothing ==
    (last'.op \in {"set", "setter_fn"} /\ last'.exc # "") => UNCHANGED <<inst, heap, nrefs>>
C4_KindEnforcement == [] C4_Errors /\ [][C4_FailedSetChangesNothing]_vars
\* A set on an instance of an output type that has a _values dict has just raised
\* AssertionError.
C4_Witness ==
    /\ last.op = "set" /\ last.exc = "AssertionError"
    /\ is_output_type(attrs, last.cls)
    /\ \E i \in Live : ClsOf(i) = last.cls /\ inst[i].values # NoRef

\* C7: for instances of decorated classes that are not dict subclasses, a == b
\* exactly when both are of the same class and their _values agree (both absent,
\* or both present with equal items); == is reflexive and symmetric.
StoreState(i) ==
    [has |-> inst[i].values # NoRef,
     items |-> IF inst[i].values = NoRef THEN EmptyDict ELSE heap[inst[i].values]]
Decorated(i) == CarriesTag(ClsOf(i)) /\ ~IsDictSubclass(ClsOf(i))
C7_Equality ==
    \A i \in Live : \A j \in Live :
        (Decorated(i) /\ Decorated(j)) =>
            /\ HasEq(attrs, inst, i) /\ HasEq(attrs, inst, j)
            /\ eq(inst, heap, i, j) <=> (ClsOf(i) = ClsOf(j) /\ StoreState(i) = StoreState(j))
            /\ eq(inst, heap, i, j) <=> eq(inst, heap, j, i)
            /\ eq(inst, heap, i, i)
\* Two output instances built from two different dicts with equal, non-empty items
\* compare equal.
C7_Witness ==
    \E i \in Live : \E j \in Live :
        /\ i # j /\ Decorated(i) /\ Decorated(j)
        /\ is_output_type(attrs, ClsOf(i))
        /\ inst[i].values # NoRef /\ inst[j].values # NoRef
        /\ inst[i].values # inst[j].values
        /\ heap[inst[i].values] # EmptyDict
        /\ eq(inst, heap, i, j)

\* C8: input_type_to_dict on an instance of an input type returns exactly the
\* mapping wire name -> last written value, whether the writes were made with set
\* or through a property setter (a field is stored under its declared wire name);
\* it is the empty dict when nothing was written; and it raises AssertionError
\* exactly when the class is not an input type.
C8_ToDict ==
    /\ \A i \in Live :
          is_input_type(attrs, ClsOf(i)) => ToDictItems(inst, heap, i) = written[i]
    /\ last.op = "input_type_to_dict" =>
          /\ last.exc = "AssertionError" <=> ~is_input_type(attrs, last.cls)
          /\ last.exc = "" =>
                \E i \in Live : ClsOf(i) = last.cls /\ heap[nrefs] = written[i]

\* C9: for an output type that is not a dict subclass, the synthesized __init__
\* given a non-dict raises TypeError (TypeMismatch) and leaves the instance
\* without _values; given a dict m it makes m the _values, and then get(self, n)
\* returns m.get(translate(n)) (translate is the class's _translate_property, the
\* identity without one); the properties of an output type have no setter, every
\* set on an instance of one raises, and no set and no property write, on whatever
\* instance it is made, changes an instance of an output type or its _values.
StaticHook(c) == HasAttr([d \in Classes |-> ClassBody(d)], c, _TRANSLATE_PROPERTY)
C9_Output ==
    \A i \in Live :
        (is_output_type(attrs, ClsOf(i)) /\ ~IsDictSubclass(ClsOf(i))) =>
            /\ inst[i].values = inst[i].arg
            /\ \A k \in Keys :
                  get(attrs, inst, heap, i, StrName(k)) =
                      Return(IF inst[i].arg = NoRef THEN None
                             ELSE DictGet(heap[inst[i].arg],
                                          IF StaticHook(ClsOf(i)) THEN Translate(k) ELSE k))
C9_InitOutcome ==
    last.op = "init" =>
        /\ is_output_type(attrs, last.cls) /\ ~IsDictSubclass(last.cls)
        /\ ClsOf(ninst) = last.cls
        /\ last.exc = "TypeError" <=> inst[ninst].arg = NoRef
        /\ last.exc = "TypeError" => inst[ninst].values = NoRef
        /\ last.exc \in {"", "TypeError"}
C9_ReadOnly ==
    \A i \in Live :
        is_output_type(attrs, ClsOf(i)) =>
            /\ \A name \in NameArgs : SetExc(attrs, inst, i, name) # ""
            /\ \A f \in FieldNames :
                  Prop(attrs, inst, i, f).kind = "property" => ~Prop(attrs, inst, i, f).setter
C9_WritesLeaveOutputStores ==
    last'.op \in {"set", "setter_fn"} =>
        \A i \in Live :
            is_output_type(attrs, ClsOf(i)) =>
                /\ inst'[i] = inst[i]
                /\ inst[i].values # NoRef => heap'[inst[i].values] = heap[inst[i].values]
C9_OutputType ==
    /\ [] (C9_Output /\ C9_InitOutcome /\ C9_ReadOnly)
    /\ [][C9_WritesLeaveOutputStores]_vars

\* C10: every _values dict belongs to one instance alone: no two instances have
\* the same dict as _values, and no instance has as _values a dict the calling
\* code holds (the dict given to __init__, the dict input_type_to_dict returned),
\* so that no change the caller makes to a dict of its own changes what get returns.
C10_StoresExclusive ==
    /\ \A i \in Live : \A j \in Live :
          (i # j /\ inst[i].values # NoRef) => inst[i].values # inst[j].values
    /\ \A i \in Live : inst[i].values \notin held

(***************************************************************************)
(* The properties of the unwrapping functions (SpecTypes).                 *)
(***************************************************************************)
IsOptionalPair(t) ==
    /\ t.tag = "Union" /\ Len(t.args) = 2
    /\ t.args[1] = NoneType \/ t.args[2] = NoneType
Payload(t) == IF t.args[1] = NoneType THEN t.args[2] ELSE t.args[1]

\* C5: unwrap_optional_type never raises; a union of T and NoneType gives T,
\* whichever of the two comes first; everything else (a type that is no union, a
\* union of three or more alternatives) is returned as it is.
C5_UnwrapOptional ==
    tlast.op = "unwrap_optional_type" =>
        /\ tlast.exc = ""
        /\ tlast.val = IF IsOptionalPair(tlast.arg) THEN Payload(tlast.arg) ELSE tlast.arg

\* C6: _unwrap_type strips one Output layer and then one Optional layer, once each:
\* for a plain class T, the expressions Output[Optional[T]], Output[T], Optional[T]
\* and T all give T, while Optional[Output[T]] and Output[Output[T]] give Output[T];
\* so applying it twice to Optional[Output[T]] or Output[Output[T]] gives T, not
\* what applying it once gives.  (The expression is the one the program wrote.)
C6_FullUnwrap ==
    \A n \in PlainNames :
        LET T == PlainType(n)
            Is(op, e) == tlast.op = op /\ tlast.expr = e
            Gives(v) == tlast.exc = "" /\ tlast.val = v
        IN /\ Is("_unwrap_type", WrittenOutput(WrittenOptional(T))) => Gives(T)
           /\ Is("_unwrap_type", WrittenOutput(T)) => Gives(T)
           /\ Is("_unwrap_type", WrittenOptional(T)) => Gives(T)
           /\ Is("_unwrap_type", T) => Gives(T)
           /\ Is("_unwrap_type", WrittenOptional(WrittenOutput(T))) => Gives(MakeOutput(T))
           /\ Is("_unwrap_type", WrittenOutput(WrittenOutput(T))) => Gives(MakeOutput(T))
           /\ Is("_unwrap_type twice", WrittenOptional(WrittenOutput(T))) => Gives(T)
           /\ Is("_unwrap_type twice", WrittenOutput(WrittenOutput(T))) => Gives(T)

====
